---- MODULE Spec2Model ----
(***************************************************************************)
(* Model of the Doppelkopf score bot (src/main.py): the spreadsheet store  *)
(* (Dashboard, Rules and the daily sheets), the per-user FSM session, the  *)
(* scorer calculate_points and the handlers that finalize, undo and reset. *)
(***************************************************************************)
EXTENDS Integers, Sequences, FiniteSets, TLC

VARIABLES
    dashboard,   \* the "Dashboard" worksheet: [exists, colA, b7]
    rulesSheet,  \* the "Rules" worksheet: [exists, rows]
    todaySheet,  \* the worksheet titled with today's date: [exists, header, rows]
    pastSheets,  \* the worksheets of earlier days, in worksheet order
    sess,        \* per session: the aiogram FSM state and its data
    out,         \* the last reply of a handler
    sc,          \* the scorer's arguments and result (specification ScoreSpec)
    tasks        \* the running invocations of handle_final_score (ConcSpec)

vars == <<dashboard, rulesSheet, todaySheet, pastSheets, sess, out, sc, tasks>>

(***************************************************************************)
(* Bounds of the model.                                                    *)
(***************************************************************************)
MaxRows == 1        \* ledger rows over all daily sheets
MaxBock == 5        \* value written to the bock counter
MaxBlocks == 2      \* copies of the highlight block in the dashboard's column A
MaxPastDays == 1    \* daily sheets of earlier days (specification LedgerSpec)
MaxLedgerRows == 2  \* rows of the daily sheet a behaviour of LedgerSpec starts with
MaxToggleTags == 2
MaxInitBock == 2

(***************************************************************************)
(* Lists (Python list operations used by the code).                        *)
(***************************************************************************)
Range(seq) == {seq[i] : i \in 1..Len(seq)}

In(x, seq) == \E i \in 1..Len(seq) : seq[i] = x

\* list.remove(x): drops the first occurrence
RECURSIVE Remove(_, _)
Remove(seq, x) ==
    IF seq = <<>> THEN <<>>
    ELSE IF Head(seq) = x THEN Tail(seq)
    ELSE <<Head(seq)>> \o Remove(Tail(seq), x)

\* [p for p in seq if keep(p)]
RECURSIVE Filter(_, _)
Filter(seq, drop) ==
    IF seq = <<>> THEN <<>>
    ELSE IF Head(seq) \in drop THEN Filter(Tail(seq), drop)
    ELSE <<Head(seq)>> \o Filter(Tail(seq), drop)

RECURSIVE Pow2(_)
Pow2(n) == IF n = 0 THEN 1 ELSE 2 * Pow2(n - 1)

RECURSIVE SumOver(_, _)
SumOver(f, S) ==
    IF S = {} THEN 0
    ELSE LET x == CHOOSE y \in S : TRUE IN f[x] + SumOver(f, S \ {x})

(***************************************************************************)
(* Rules (get_rules) and the scorer (calculate_points).                    *)
(***************************************************************************)
TriggerTag == "Herz-Rundlauf"

\* the dict get_rules returns when there is no Rules worksheet; CentFaktor is
\* kept in hundredths of a euro (0.05 -> 5)
DefaultRules ==
    << [Key |-> "SoloMultiplier", Value |-> 3],
       [Key |-> "Fuchs", Value |-> 1],
       [Key |-> "Karlchen", Value |-> 1],
       [Key |-> "Doppelkopf", Value |-> 1],
       [Key |-> "CentFaktor", Value |-> 5],
       [Key |-> "BasePoint", Value |-> 1] >>

\* {row['Key']: row['Value'] for row in data}: the last row of a key wins
get_rules(sheet) == IF sheet.exists THEN sheet.rows ELSE DefaultRules

HasRule(rules, k) == \E i \in 1..Len(rules) : rules[i].Key = k

\* rules.get(k) without a default: 0 for a missing key
RuleGet_NoDefault(rules, k, dflt) ==
    IF HasRule(rules, k)
    THEN rules[CHOOSE i \in 1..Len(rules) : rules[i].Key = k].Value
    ELSE 0

\* rules.get(k, dflt)
RuleGet(rules, k, dflt) ==
    IF HasRule(rules, k)
    THEN rules[CHOOSE i \in 1..Len(rules) :
                 /\ rules[i].Key = k
                 /\ \A j \in (i + 1)..Len(rules) : rules[j].Key # k].Value
    ELSE dflt

NoScores == [n \in {} |-> 0]

\* lines 93-106 with the trigger tag counted as a special point
RoundPoints_CountsTrigger(g, rules, is_bock) ==
    LET base == RuleGet(rules, "BasePoint", 1)
        anns == IF "announcements" \in g.has THEN g.announcements ELSE <<>>
        extras == IF "extra_points" \in g.has THEN g.extra_points ELSE <<>>
        round_points == (base + Len(extras)) * Pow2(Len(anns))
    IN  IF is_bock THEN round_points * 2 ELSE round_points

\* lines 93-106
RoundPoints(g, rules, is_bock) ==
    LET base == RuleGet(rules, "BasePoint", 1)
        anns == IF "announcements" \in g.has THEN g.announcements ELSE <<>>
        multiplier == Pow2(Len(anns))
        extras0 == IF "extra_points" \in g.has THEN g.extra_points ELSE <<>>
        extras == IF In(TriggerTag, extras0) THEN Remove(extras0, TriggerTag) ELSE extras0
        extra_val == Len(extras)
        round_points == (base + extra_val) * multiplier
    IN  IF is_bock THEN round_points * 2 ELSE round_points

\* lines 110-119 with the Re branch taken whoever won
TeamScores_ReAlwaysWins(g, players, rp) ==
    [n \in Range(players) \cup Range(g.re_players) |->
        IF n \in Range(g.re_players) THEN rp ELSE -rp]

\* lines 110-119: scores[p] = ... assigns, and adds the key when p is no roster player
TeamScores(g, players, rp) ==
    LET re_team == g.re_players
        kontra_team == Filter(players, Range(re_team))
        sgn == IF g.winner_team = "Re" THEN 1 ELSE -1
    IN  [n \in Range(players) \cup Range(re_team) |->
            IF n \in Range(re_team) THEN sgn * rp ELSE -sgn * rp]

\* lines 121-131 without the solo multiplier
SoloScores_NoMultiplier(g, rules, players, rp) ==
    LET sgn == IF g.winner_team = "Soloist" THEN 1 ELSE -1
    IN  [n \in Range(players) \cup {g.soloist} |->
            IF n = g.soloist THEN sgn * rp ELSE -sgn * rp]

\* lines 121-131 with the soloist paid by the number of opponents (a zero sum)
SoloScores_ZeroSum(g, rules, players, rp) ==
    LET sgn == IF g.winner_team = "Soloist" THEN 1 ELSE -1
    IN  [n \in Range(players) \cup {g.soloist} |->
            IF n = g.soloist THEN sgn * rp * (Len(players) - 1) ELSE -sgn * rp]

\* lines 121-131
SoloScores(g, rules, players, rp) ==
    LET soloist == g.soloist
        solo_mult == RuleGet(rules, "SoloMultiplier", 3)
        sgn == IF g.winner_team = "Soloist" THEN 1 ELSE -1
    IN  [n \in Range(players) \cup {soloist} |->
            IF n = soloist THEN sgn * (rp * solo_mult) ELSE -sgn * rp]

\* calculate_points: ok = FALSE when a subscript game_data[...] raises KeyError
calculate_points(g, rules, players, is_bock) ==
    LET rp == RoundPoints(g, rules, is_bock)
    IN  IF "type" \notin g.has THEN [ok |-> FALSE, scores |-> NoScores]
        ELSE IF g.type = "Normal" THEN
            IF "re_players" \notin g.has \/ "winner_team" \notin g.has
            THEN [ok |-> FALSE, scores |-> NoScores]
            ELSE [ok |-> TRUE, scores |-> TeamScores(g, players, rp)]
        ELSE IF g.type = "Solo" THEN
            IF "soloist" \notin g.has \/ "winner_team" \notin g.has
            THEN [ok |-> FALSE, scores |-> NoScores]
            ELSE [ok |-> TRUE, scores |-> SoloScores(g, rules, players, rp)]
        ELSE [ok |-> TRUE, scores |-> [n \in Range(players) |-> 0]]

(***************************************************************************)
(* The spreadsheet: cells, the Dashboard and the daily sheets.             *)
(***************************************************************************)
BlankCell == [k |-> "blank", i |-> 0, s |-> ""]
IntCell(n) == [k |-> "int", i |-> n, s |-> ""]
StrCell(x) == IF x = "" THEN BlankCell ELSE [k |-> "str", i |-> 0, s |-> x]

NoDashboard == [exists |-> FALSE, colA |-> <<>>, b7 |-> BlankCell]
NoSheet == [exists |-> FALSE, header |-> <<>>, rows |-> <<>>]

\* get_bock_count: int(val) if val and val.isdigit() else 0; 0 when the
\* worksheet is missing
get_bock_count(d) ==
    IF d.exists /\ d.b7.k = "int" /\ d.b7.i >= 0 THEN d.b7.i ELSE 0

\* set_bock_count: update_acell('B7', count); nothing when the worksheet is missing
set_bock_count(d, count) ==
    IF d.exists THEN [d EXCEPT !.b7 = IntCell(count)] ELSE d

\* get_players_from_dashboard: col_values(1)[1:] without the empty cells
get_players_from_dashboard(d) ==
    IF d.exists /\ d.colA # <<>> THEN Filter(Tail(d.colA), {""}) ELSE <<>>

\* sh.worksheets() without Dashboard and Rules
Worksheets(past, today) == IF today.exists THEN Append(past, today) ELSE past

RowCount(past, today) ==
    LET ws == Worksheets(past, today)
        RECURSIVE cnt(_)
        cnt(i) == IF i > Len(ws) THEN 0 ELSE Len(ws[i].rows) + cnt(i + 1)
    IN  cnt(1)

IsUnique(seq) == \A i, j \in 1..Len(seq) : seq[i] = seq[j] => i = j

MaxRowLen(rows) ==
    LET RECURSIVE mx(_)
        mx(i) == IF i > Len(rows) THEN 0
                 ELSE LET m == mx(i + 1) IN
                      IF Len(rows[i].cols) > m THEN Len(rows[i].cols) ELSE m
    IN  mx(1)

\* Worksheet.get_all_records raises when the header row, padded with '' to the
\* width of the widest row, has a repeated key
RecordsOK(sheet) ==
    /\ IsUnique(sheet.header)
    /\ MaxRowLen(sheet.rows) <= Len(sheet.header) + 1

IndexOf(x, seq) == CHOOSE i \in 1..Len(seq) : seq[i] = x

\* for p in players: pts = int(row.get(p, 0)); totals[p] += pts
\* int('') raises for a row shorter than the header: ok = FALSE
RECURSIVE AddRow(_, _, _, _, _)
AddRow(tot, header, row, players, i) ==
    IF i > Len(players) THEN [tot |-> tot, ok |-> TRUE]
    ELSE LET p == players[i] IN
         IF ~In(p, header) THEN AddRow(tot, header, row, players, i + 1)
         ELSE IF IndexOf(p, header) > Len(row.cols) THEN [tot |-> tot, ok |-> FALSE]
         ELSE AddRow([tot EXCEPT ![p] = @ + row.cols[IndexOf(p, header)]],
                     header, row, players, i + 1)

RECURSIVE AddRows(_, _, _, _)
AddRows(tot, sheet, players, r) ==
    IF r > Len(sheet.rows) THEN [tot |-> tot, ok |-> TRUE]
    ELSE LET a == AddRow(tot, sheet.header, sheet.rows[r], players, 1) IN
         IF a.ok THEN AddRows(a.tot, sheet, players, r + 1) ELSE a

\* update_dashboard lines 240-255: a worksheet that raises is left where it
\* stopped (except: continue), the sums added so far are kept
RECURSIVE DashTotals(_, _, _, _)
DashTotals(tot, ws, players, k) ==
    IF k > Len(ws) THEN tot
    ELSE IF ~RecordsOK(ws[k]) THEN DashTotals(tot, ws, players, k + 1)
    ELSE DashTotals(AddRows(tot, ws[k], players, 1).tot, ws, players, k + 1)

ZeroTotals(players) == [p \in Range(players) |-> 0]

\* max(totals, key=totals.get) / min(...): the first key in dict order;
\* "-" when every total is 0
FirstWith(players, tot, v) ==
    players[CHOOSE i \in 1..Len(players) :
                /\ tot[players[i]] = v
                /\ \A j \in 1..(i - 1) : tot[players[j]] # v]

Mvp(players, tot) ==
    IF \A p \in Range(players) : tot[p] = 0 THEN "-"
    ELSE FirstWith(players, tot,
                   CHOOSE v \in {tot[p] : p \in Range(players)} :
                       \A p \in Range(players) : tot[p] <= v)

Pechvogel(players, tot) ==
    IF \A p \in Range(players) : tot[p] = 0 THEN "-"
    ELSE FirstWith(players, tot,
                   CHOOSE v \in {tot[p] : p \in Range(players)} :
                       \A p \in Range(players) : tot[p] >= v)

format_rule_name(key) ==
    CASE key = "SoloMultiplier" -> "Solo-Multiplikator"
      [] key = "Fuchs" -> "Punkte Fuchs"
      [] key = "Karlchen" -> "Punkte Karlchen"
      [] key = "Doppelkopf" -> "Punkte Doppelkopf"
      [] key = "CentFaktor" -> "Euro pro Punkt"
      [] key = "BasePoint" -> "Basispunkte"
      [] OTHER -> key

HighlightLabels ==
    <<"STICHFEST ELITE", "MVP", "Pechvogel", "", "Bock-Kontingent", "LIVE-TICKER">>

\* column A after update_dashboard: header, players, the highlights from row
\* len(rows)+3 and the rules from row start_row+len(highlight_data)+2
DashColA(players, rules) ==
    <<"Spieler">> \o players \o <<"">> \o HighlightLabels \o <<"", "">>
        \o <<"AKTUELLER REGELSATZ">>
        \o [i \in 1..Len(rules) |-> format_rule_name(rules[i].Key)]

\* what update_dashboard leaves in cell B7: clear() empties it, then row 7 is a
\* player row (its total), the empty row, or one of the highlight rows
DashB7(players, tot) ==
    LET n == Len(players) IN
    IF n >= 6 THEN IntCell(tot[players[6]])
    ELSE IF n = 5 THEN BlankCell
    ELSE IF n = 4 THEN BlankCell
    ELSE IF n = 3 THEN StrCell(Mvp(players, tot))
    ELSE IF n = 2 THEN StrCell(Pechvogel(players, tot))
    ELSE IF n = 1 THEN BlankCell
    ELSE IntCell(0)

update_dashboard(players, rules, past, today) ==
    LET tot == DashTotals(ZeroTotals(players), Worksheets(past, today), players, 1)
    IN  [exists |-> TRUE, colA |-> DashColA(players, rules), b7 |-> DashB7(players, tot)]

(***************************************************************************)
(* The FSM session of a user (aiogram FSMContext): state and data.         *)
(***************************************************************************)
Sessions == {"u1", "u2"}

EmptyData ==
    [has |-> {}, players |-> <<>>, type |-> "", re_players |-> <<>>, soloist |-> "",
     winner_team |-> "", announcements |-> <<>>, extra_points |-> <<>>]

\* data.get("extra_points", [])
ExtraPointsOf(data) == IF "extra_points" \in data.has THEN data.extra_points ELSE <<>>

\* state.clear()
Cleared == [state |-> "None", data |-> EmptyData]

Reply(op, s, msg) == [op |-> op, s |-> s, msg |-> msg, bock |-> FALSE, left |-> 0]

NoReply == Reply("", "", "")

NoScoreCall ==
    [phase |-> "off", g |-> EmptyData, rules |-> <<>>, players |-> <<>>,
     is_bock |-> FALSE, ok |-> FALSE, scores |-> NoScores]

\* the invocations of handle_final_score the dispatcher runs as asyncio tasks
Tasks == {"t1", "t2"}

IdleTask ==
    [pc |-> "idle", s |-> "", data |-> EmptyData, read |-> 0, new |-> 0,
     logged |-> FALSE]

NoTasks == [t \in Tasks |-> IdleTask]

StoreUnchanged == UNCHANGED <<dashboard, rulesSheet, todaySheet, pastSheets>>

\* the dashboard update stays within the modelled part of column A: every
\* update writes the highlight block below the names it was given
Count(x, seq) == Cardinality({i \in 1..Len(seq) : seq[i] = x})

FitsColA(players, rules) == Count("LIVE-TICKER", DashColA(players, rules)) <= MaxBlocks

(***************************************************************************)
(* Setup: /start and the list of player names.                             *)
(***************************************************************************)
\* cmd_start, lines 388-403
cmd_start(s, fail) ==
    /\ IF ~fail /\ get_players_from_dashboard(dashboard) = <<>>
       THEN /\ sess' = [sess EXCEPT ![s].state = "waiting_for_players"]
            /\ out' = Reply("cmd_start", s, "ask_players")
       ELSE /\ sess' = sess
            /\ out' = Reply("cmd_start", s, "welcome")
    /\ StoreUnchanged
    /\ UNCHANGED <<sc, tasks>>

\* process_players, lines 405-420; fields are the stripped pieces of the message
process_players(s, fields, fail) ==
    /\ sess[s].state = "waiting_for_players"
    /\ LET players == Filter(fields, {""})
           rules == get_rules(rulesSheet)
       IN  IF Len(players) \notin {4, 5}
           THEN /\ out' = Reply("process_players", s, "need_4_or_5")
                /\ UNCHANGED <<sess, dashboard>>
           ELSE /\ sess' = [sess EXCEPT ![s] = Cleared]
                /\ IF fail
                   THEN /\ out' = Reply("process_players", s, "store_error")
                        /\ UNCHANGED dashboard
                   ELSE /\ FitsColA(players, rules)
                        /\ dashboard' = update_dashboard(players, rules, pastSheets, todaySheet)
                        /\ out' = Reply("process_players", s, "registered")
    /\ UNCHANGED <<rulesSheet, todaySheet, pastSheets, sc, tasks>>

(***************************************************************************)
(* Collecting a round: /score and the callback handlers.  No callback      *)
(* handler is registered with a state filter: each runs in every state.    *)
(***************************************************************************)
\* cmd_score, lines 422-440
cmd_score(s, fail) ==
    /\ LET players == get_players_from_dashboard(dashboard)
       IN  IF fail
           THEN /\ out' = Reply("cmd_score", s, "store_error")
                /\ sess' = sess
           ELSE IF players = <<>>
           THEN /\ out' = Reply("cmd_score", s, "no_players")
                /\ sess' = sess
           ELSE /\ out' = Reply("cmd_score", s, "ask_type")
                /\ sess' = [sess EXCEPT
                              ![s].data.has = @ \cup {"players"},
                              ![s].data.players = players,
                              ![s].state = "waiting_for_game_type"]
    /\ StoreUnchanged
    /\ UNCHANGED <<sc, tasks>>

\* process_game_type, lines 442-462: data["players"] raises after type is stored
process_game_type(s, game_type) ==
    /\ LET d == [sess[s].data EXCEPT !.has = @ \cup {"type"}, !.type = game_type]
       IN  IF "players" \notin d.has
           THEN /\ sess' = [sess EXCEPT ![s].data = d]
                /\ out' = Reply("process_game_type", s, "unhandled")
           ELSE IF game_type = "Normal"
           THEN /\ sess' = [sess EXCEPT
                              ![s].data = [d EXCEPT !.has = @ \cup {"re_players"},
                                                    !.re_players = <<>>],
                              ![s].state = "waiting_for_re_players"]
                /\ out' = Reply("process_game_type", s, "ask_re")
           ELSE /\ sess' = [sess EXCEPT ![s].data = d,
                                        ![s].state = "waiting_for_soloist"]
                /\ out' = Reply("process_game_type", s, "ask_soloist")
    /\ StoreUnchanged
    /\ UNCHANGED <<sc, tasks>>

\* lines 471-475 without the limit of two selected players
ToggleRe_NoLimit(re_players, p_selected) ==
    IF In(p_selected, re_players) THEN Remove(re_players, p_selected)
    ELSE Append(re_players, p_selected)

\* lines 471-475
ToggleRe(re_players, p_selected) ==
    IF In(p_selected, re_players) THEN Remove(re_players, p_selected)
    ELSE IF Len(re_players) < 2 THEN Append(re_players, p_selected)
    ELSE re_players

\* handle_re_selection with one selection list shared by all sessions
handle_re_selection_SharedList(s, p_selected) ==
    /\ LET d == sess[s].data
           re_players == IF "re_players" \in d.has THEN d.re_players ELSE <<>>
       IN  sess' = [u \in Sessions |->
                      [sess[u] EXCEPT !.data.has = @ \cup {"re_players"},
                                      !.data.re_players = ToggleRe(re_players, p_selected)]]
    /\ out' = Reply("handle_re_selection", s, "toggles")
    /\ StoreUnchanged
    /\ UNCHANGED <<sc, tasks>>

\* handle_re_selection, lines 464-485
handle_re_selection(s, p_selected) ==
    /\ LET d == sess[s].data
           re_players == IF "re_players" \in d.has THEN d.re_players ELSE <<>>
       IN  IF "players" \notin d.has
           THEN /\ sess' = sess
                /\ out' = Reply("handle_re_selection", s, "unhandled")
           ELSE /\ sess' = [sess EXCEPT
                              ![s].data.has = @ \cup {"re_players"},
                              ![s].data.re_players = ToggleRe(re_players, p_selected)]
                /\ out' = Reply("handle_re_selection", s,
                                IF Len(ToggleRe(re_players, p_selected)) = 2
                                THEN "toggles_and_confirm" ELSE "toggles")
    /\ StoreUnchanged
    /\ UNCHANGED <<sc, tasks>>

\* confirm_re_team, lines 487-496
confirm_re_team(s) ==
    /\ IF "re_players" \notin sess[s].data.has
       THEN /\ sess' = sess
            /\ out' = Reply("confirm_re_team", s, "unhandled")
       ELSE /\ sess' = [sess EXCEPT ![s].state = "waiting_for_winner"]
            /\ out' = Reply("confirm_re_team", s, "ask_winner")
    /\ StoreUnchanged
    /\ UNCHANGED <<sc, tasks>>

\* process_soloist, lines 498-507
process_soloist(s, soloist) ==
    /\ sess' = [sess EXCEPT ![s].data.has = @ \cup {"soloist"},
                            ![s].data.soloist = soloist,
                            ![s].state = "waiting_for_winner"]
    /\ out' = Reply("process_soloist", s, "ask_winner")
    /\ StoreUnchanged
    /\ UNCHANGED <<sc, tasks>>

\* handle_winner_selection, lines 509-520
handle_winner_selection(s, winner) ==
    /\ sess' = [sess EXCEPT ![s].data.has = @ \cup {"winner_team", "announcements"},
                            ![s].data.winner_team = winner,
                            ![s].data.announcements = <<>>,
                            ![s].state = "waiting_for_announcements"]
    /\ out' = Reply("handle_winner_selection", s, "ask_announcements")
    /\ StoreUnchanged
    /\ UNCHANGED <<sc, tasks>>

\* lines 527-528 with the tag appended whether or not it is in the list
ToggleTag_AppendOnly(tags, opt) == Append(tags, opt)

\* lines 527-528 and 556-557
ToggleTag(tags, opt) == IF In(opt, tags) THEN Remove(tags, opt) ELSE Append(tags, opt)

\* handle_announcement_toggle, lines 522-537
handle_announcement_toggle(s, opt) ==
    /\ LET d == sess[s].data
           anns == IF "announcements" \in d.has THEN d.announcements ELSE <<>>
       IN  sess' = [sess EXCEPT ![s].data.has = @ \cup {"announcements"},
                                ![s].data.announcements = ToggleTag(anns, opt)]
    /\ out' = Reply("handle_announcement_toggle", s, "toggles")
    /\ StoreUnchanged
    /\ UNCHANGED <<sc, tasks>>

\* handle_announcement_done, lines 539-549
handle_announcement_done(s) ==
    /\ sess' = [sess EXCEPT ![s].data.has = @ \cup {"extra_points"},
                            ![s].data.extra_points = <<>>,
                            ![s].state = "waiting_for_special_points"]
    /\ out' = Reply("handle_announcement_done", s, "ask_extras")
    /\ StoreUnchanged
    /\ UNCHANGED <<sc, tasks>>

\* handle_extra_toggle, lines 551-566
handle_extra_toggle(s, opt) ==
    /\ LET d == sess[s].data
           extras == IF "extra_points" \in d.has THEN d.extra_points ELSE <<>>
       IN  sess' = [sess EXCEPT ![s].data.has = @ \cup {"extra_points"},
                                ![s].data.extra_points = ToggleTag(extras, opt)]
    /\ out' = Reply("handle_extra_toggle", s, "toggles")
    /\ StoreUnchanged
    /\ UNCHANGED <<sc, tasks>>

(***************************************************************************)
(* Finalization: handle_final_score, lines 568-646.                        *)
(***************************************************************************)
\* the store call of handle_final_score that raises, if any
FinalFailures ==
    {"none", "roster", "rules", "bock_read", "bock_write", "append", "dashboard"}

\* lines 595-598 with the decrement taken whether or not the round is a bock round
NewBock_AlwaysDecrement(current_bock, is_bock_round, extras) ==
    IF In(TriggerTag, extras) THEN current_bock - 1 + 4 ELSE current_bock - 1

\* lines 595-598
NewBock(current_bock, is_bock_round, extras) ==
    LET afterRound == IF is_bock_round THEN current_bock - 1 ELSE current_bock
    IN  IF In(TriggerTag, extras) THEN afterRound + 4 ELSE afterRound

\* lines 600-601; set_bock_count swallows a failing write
WriteBock(d, current_bock, new_bock, fail) ==
    IF new_bock # current_bock /\ fail # "bock_write"
    THEN set_bock_count(d, new_bock) ELSE d

\* line 587
TeamInvalid(data) ==
    data.type = "Normal" /\ ("re_players" \notin data.has \/ Len(data.re_players) # 2)

\* get_or_create_daily_sheet, lines 58-69
get_or_create_daily_sheet(today, players) ==
    IF today.exists THEN today
    ELSE [exists |-> TRUE, header |-> players, rows |-> <<>>]

PositiveSum(scores) ==
    SumOver([n \in DOMAIN scores |-> IF scores[n] > 0 THEN scores[n] ELSE 0],
            DOMAIN scores)

\* lines 605-606
LedgerRow(data, players, scores) ==
    [type |-> data.type, winner |-> data.winner_team, pts |-> PositiveSum(scores),
     cols |-> [i \in 1..Len(players) |-> scores[players[i]]]]

\* the except branch, lines 643-646
FinalError(s) ==
    /\ out' = Reply("handle_final_score", s, "log_error")
    /\ sess' = [sess EXCEPT ![s] = Cleared]

handle_final_score(s, fail) ==
    LET d0 == sess[s].data
        load == "players" \notin d0.has
        data == IF load
                THEN [d0 EXCEPT !.has = @ \cup {"players"},
                                !.players = get_players_from_dashboard(dashboard)]
                ELSE d0
        players == data.players
        rules == get_rules(rulesSheet)
        current_bock == IF fail = "bock_read" THEN 0 ELSE get_bock_count(dashboard)
        is_bock_round == current_bock > 0
        res == calculate_points(data, rules, players, is_bock_round)
        extras == IF "extra_points" \in data.has THEN data.extra_points ELSE <<>>
        new_bock == NewBock(current_bock, is_bock_round, extras)
        dash1 == WriteBock(dashboard, current_bock, new_bock, fail)
        sheet == get_or_create_daily_sheet(todaySheet, players)
        logged == [sheet EXCEPT !.rows = Append(@, LedgerRow(data, players, res.scores))]
    IN
    /\ fail = "roster" => load
    /\ UNCHANGED <<rulesSheet, pastSheets, sc, tasks>>
    /\ IF fail = "roster"
       THEN \* lines 572-573 are outside the try: the exception leaves the handler
            /\ out' = Reply("handle_final_score", s, "unhandled")
            /\ UNCHANGED <<sess, dashboard, todaySheet>>
       ELSE IF fail = "rules" \/ "type" \notin data.has
       THEN /\ FinalError(s)
            /\ UNCHANGED <<dashboard, todaySheet>>
       ELSE IF TeamInvalid(data)
       THEN /\ out' = Reply("handle_final_score", s, "team_error")
            /\ sess' = [sess EXCEPT ![s] = Cleared]
            /\ UNCHANGED <<dashboard, todaySheet>>
       ELSE IF ~res.ok
       THEN /\ FinalError(s)
            /\ UNCHANGED <<dashboard, todaySheet>>
       ELSE IF new_bock > MaxBock
       THEN FALSE
       ELSE IF fail = "append"
       THEN /\ FinalError(s)
            /\ dashboard' = dash1
            /\ todaySheet' = sheet
       ELSE /\ RowCount(pastSheets, todaySheet) < MaxRows
            /\ todaySheet' = logged
            /\ sess' = [sess EXCEPT ![s] = Cleared]
            /\ IF fail = "dashboard"
               THEN \* the summary (line 633) is sent, then the error (line 645)
                    /\ dashboard' = dash1
                    /\ out' = [op |-> "handle_final_score", s |-> s,
                               msg |-> "logged_then_error",
                               bock |-> is_bock_round, left |-> new_bock]
               ELSE /\ FitsColA(players, rules)
                    /\ dashboard' = update_dashboard(players, rules, pastSheets, logged)
                    /\ out' = [op |-> "handle_final_score", s |-> s, msg |-> "logged",
                               bock |-> is_bock_round, left |-> new_bock]

(***************************************************************************)
(* handle_final_score as the event loop runs it: the coroutine gives up    *)
(* the loop at its awaits on the Telegram API (lines 579, 633, 641/645),   *)
(* and the store calls between two awaits are blocking calls that run      *)
(* without interruption.                                                   *)
(***************************************************************************)
\* lines 570-579: the data of the session is read, then "Berechne Punkte..."
final_begin(t, s) ==
    /\ tasks[t].pc = "idle"
    /\ LET d0 == sess[s].data
           data == IF "players" \notin d0.has
                   THEN [d0 EXCEPT !.has = @ \cup {"players"},
                                   !.players = get_players_from_dashboard(dashboard)]
                   ELSE d0
       IN  /\ sess' = [sess EXCEPT ![s].data = data]
           /\ tasks' = [tasks EXCEPT ![t] = [IdleTask EXCEPT !.pc = "begun", !.s = s,
                                                             !.data = data]]
    /\ out' = Reply("handle_final_score", s, "computing")
    /\ StoreUnchanged
    /\ UNCHANGED sc

\* lines 580-633: rules, counter read, validation, scoring, counter write,
\* append, summary
final_commit(t) ==
    /\ tasks[t].pc = "begun"
    /\ LET s == tasks[t].s
           data == tasks[t].data
           players == data.players
           rules == get_rules(rulesSheet)
           current_bock == get_bock_count(dashboard)
           is_bock_round == current_bock > 0
           res == calculate_points(data, rules, players, is_bock_round)
           new_bock == NewBock(current_bock, is_bock_round, ExtraPointsOf(data))
           sheet == get_or_create_daily_sheet(todaySheet, players)
       IN  IF "type" \notin data.has
           THEN /\ out' = Reply("handle_final_score", s, "log_error")
                /\ tasks' = [tasks EXCEPT ![t].pc = "failed"]
                /\ UNCHANGED <<dashboard, todaySheet>>
           ELSE IF TeamInvalid(data)
           THEN /\ out' = Reply("handle_final_score", s, "team_error")
                /\ tasks' = [tasks EXCEPT ![t].pc = "failed"]
                /\ UNCHANGED <<dashboard, todaySheet>>
           ELSE IF ~res.ok
           THEN /\ out' = Reply("handle_final_score", s, "log_error")
                /\ tasks' = [tasks EXCEPT ![t].pc = "failed"]
                /\ UNCHANGED <<dashboard, todaySheet>>
           ELSE /\ dashboard' = WriteBock(dashboard, current_bock, new_bock, "none")
                /\ todaySheet' = [sheet EXCEPT
                                    !.rows = Append(@, LedgerRow(data, players, res.scores))]
                /\ tasks' = [tasks EXCEPT ![t].pc = "logged", ![t].read = current_bock,
                                          ![t].new = new_bock, ![t].logged = TRUE]
                /\ out' = [op |-> "handle_final_score", s |-> s, msg |-> "logged",
                           bock |-> is_bock_round, left |-> new_bock]
    /\ UNCHANGED <<rulesSheet, pastSheets, sess, sc>>

\* lines 636-641: the dashboard update, then the closing message
final_dashboard(t) ==
    /\ tasks[t].pc = "logged"
    /\ dashboard' = update_dashboard(tasks[t].data.players, get_rules(rulesSheet),
                                     pastSheets, todaySheet)
    /\ tasks' = [tasks EXCEPT ![t].pc = "updated"]
    /\ out' = Reply("handle_final_score", tasks[t].s, "dashboard_updated")
    /\ UNCHANGED <<rulesSheet, todaySheet, pastSheets, sess, sc>>

\* line 646: state.clear()
final_clear(t) ==
    /\ tasks[t].pc \in {"updated", "failed"}
    /\ sess' = [sess EXCEPT ![tasks[t].s] = Cleared]
    /\ tasks' = [tasks EXCEPT ![t].pc = "done"]
    /\ out' = Reply("handle_final_score", tasks[t].s, "cleared")
    /\ StoreUnchanged
    /\ UNCHANGED sc

(***************************************************************************)
(* Undo and the admin callbacks.                                            *)
(***************************************************************************)
\* cmd_undo with every round of the day deleted
cmd_undo_ClearsSheet(s, fail) ==
    /\ out' = Reply("cmd_undo", s, IF todaySheet.exists /\ todaySheet.rows # <<>>
                                   THEN "deleted" ELSE "nothing_to_undo")
    /\ todaySheet' = IF todaySheet.exists
                     THEN [todaySheet EXCEPT !.rows = <<>>] ELSE todaySheet
    /\ UNCHANGED <<dashboard, rulesSheet, pastSheets, sess, sc, tasks>>

\* cmd_undo with the counter set back to 0 when a round is deleted
cmd_undo_ResetsBock(s, fail) ==
    /\ IF ~fail /\ todaySheet.exists /\ todaySheet.rows # <<>>
       THEN /\ out' = Reply("cmd_undo", s, "deleted")
            /\ todaySheet' = [todaySheet EXCEPT !.rows = SubSeq(@, 1, Len(@) - 1)]
            /\ dashboard' = set_bock_count(dashboard, 0)
       ELSE /\ out' = Reply("cmd_undo", s, "nothing_to_undo")
            /\ UNCHANGED <<todaySheet, dashboard>>
    /\ UNCHANGED <<rulesSheet, pastSheets, sess, sc, tasks>>

\* cmd_undo, lines 677-701
cmd_undo(s, fail) ==
    /\ IF fail
       THEN /\ out' = Reply("cmd_undo", s, "store_error")
            /\ UNCHANGED todaySheet
       ELSE IF ~todaySheet.exists
       THEN /\ out' = Reply("cmd_undo", s, "no_rounds_today")
            /\ UNCHANGED todaySheet
       ELSE IF Len(todaySheet.rows) = 0
       THEN /\ out' = Reply("cmd_undo", s, "nothing_to_undo")
            /\ UNCHANGED todaySheet
       ELSE /\ out' = Reply("cmd_undo", s, "deleted")
            /\ todaySheet' = [todaySheet EXCEPT
                                !.rows = SubSeq(@, 1, Len(@) - 1)]
    /\ UNCHANGED <<dashboard, rulesSheet, pastSheets, sess, sc, tasks>>

\* handle_reset_bock, lines 961-968
handle_reset_bock(s, fail) ==
    /\ dashboard' = IF fail THEN dashboard ELSE set_bock_count(dashboard, 0)
    /\ out' = Reply("handle_reset_bock", s, "bock_reset")
    /\ UNCHANGED <<rulesSheet, todaySheet, pastSheets, sess, sc, tasks>>

\* handle_refresh_dashboard, lines 970-979
handle_refresh_dashboard(s, fail) ==
    /\ IF fail
       THEN /\ out' = Reply("handle_refresh_dashboard", s, "store_error")
            /\ UNCHANGED dashboard
       ELSE /\ FitsColA(get_players_from_dashboard(dashboard), get_rules(rulesSheet))
            /\ dashboard' = update_dashboard(get_players_from_dashboard(dashboard),
                                             get_rules(rulesSheet), pastSheets, todaySheet)
            /\ out' = Reply("handle_refresh_dashboard", s, "refreshed")
    /\ UNCHANGED <<rulesSheet, todaySheet, pastSheets, sess, sc, tasks>>

\* handle_confirm_full_reset with the sheets of earlier days kept
handle_confirm_full_reset_TodayOnly(s, fail) ==
    /\ todaySheet' = NoSheet
    /\ out' = Reply("handle_confirm_full_reset", s, "all_clean")
    /\ UNCHANGED <<dashboard, rulesSheet, pastSheets, sess, sc, tasks>>

\* handle_confirm_full_reset, lines 1009-1030
handle_confirm_full_reset(s, fail) ==
    /\ IF fail
       THEN /\ out' = Reply("handle_confirm_full_reset", s, "store_error")
            /\ UNCHANGED <<dashboard, todaySheet, pastSheets>>
       ELSE LET players == get_players_from_dashboard(set_bock_count(dashboard, 0))
            IN  /\ FitsColA(players, get_rules(rulesSheet))
                /\ todaySheet' = NoSheet
                /\ pastSheets' = <<>>
                /\ dashboard' = update_dashboard(players, get_rules(rulesSheet), <<>>, NoSheet)
                /\ out' = Reply("handle_confirm_full_reset", s, "all_clean")
    /\ UNCHANGED <<rulesSheet, sess, sc, tasks>>

(***************************************************************************)
(* The system: one user driving the bot through its buttons and commands.  *)
(***************************************************************************)
Init ==
    /\ dashboard = NoDashboard
    /\ rulesSheet = [exists |-> FALSE, rows |-> <<>>]
    /\ todaySheet = NoSheet
    /\ pastSheets = <<>>
    /\ sess = [s \in Sessions |-> Cleared]
    /\ out = NoReply
    /\ sc = NoScoreCall
    /\ tasks = NoTasks

MainSessions == {"u1"}
SetupInputs == { <<"A", "B", "C", "D">>, <<"A", "B", "C">> }
ReInputs == {"A", "B"}
SoloInputs == {"A"}
WinnerInputs == {"Re", "Kontra", "Soloist", "Others"}
AnnInputs == {"Re"}
ExtraInputs == {TriggerTag}

\* the transport of Spec: the user presses a button of the prompt that belongs
\* to the session's current state (the keyboard the last prompt displays)
Awaiting(s, st) == sess[s].state = st

ConfirmShown(s) ==
    Awaiting(s, "waiting_for_re_players") /\ Len(sess[s].data.re_players) = 2

\* the player buttons are built from the roster of the session
PlayerShown(s, st, p) == Awaiting(s, st) /\ In(p, sess[s].data.players)

WinnerShown(s, w) ==
    /\ Awaiting(s, "waiting_for_winner")
    /\ IF sess[s].data.type = "Normal" THEN w \in {"Re", "Kontra"}
       ELSE w \in {"Soloist", "Others"}

Commands(s) ==
    \/ \E fail \in BOOLEAN : cmd_start(s, fail)
    \/ \E f \in SetupInputs, fail \in BOOLEAN : process_players(s, f, fail)
    \/ \E fail \in BOOLEAN : Awaiting(s, "None") /\ cmd_score(s, fail)
    \/ \E fail \in BOOLEAN : cmd_undo(s, fail)
    \/ \E fail \in BOOLEAN : handle_reset_bock(s, fail)
    \/ \E fail \in BOOLEAN : handle_refresh_dashboard(s, fail)
    \/ \E fail \in BOOLEAN : handle_confirm_full_reset(s, fail)

Next ==
    \/ \E s \in MainSessions : Commands(s)
    \/ \E s \in MainSessions, t \in {"Normal", "Solo"} :
          Awaiting(s, "waiting_for_game_type") /\ process_game_type(s, t)
    \/ \E s \in MainSessions, p \in ReInputs :
          PlayerShown(s, "waiting_for_re_players", p) /\ handle_re_selection(s, p)
    \/ \E s \in MainSessions : ConfirmShown(s) /\ confirm_re_team(s)
    \/ \E s \in MainSessions, p \in SoloInputs :
          PlayerShown(s, "waiting_for_soloist", p) /\ process_soloist(s, p)
    \/ \E s \in MainSessions, w \in WinnerInputs :
          WinnerShown(s, w) /\ handle_winner_selection(s, w)
    \/ \E s \in MainSessions, o \in AnnInputs :
          Awaiting(s, "waiting_for_announcements") /\ handle_announcement_toggle(s, o)
    \/ \E s \in MainSessions :
          Awaiting(s, "waiting_for_announcements") /\ handle_announcement_done(s)
    \/ \E s \in MainSessions, o \in ExtraInputs :
          Awaiting(s, "waiting_for_special_points") /\ handle_extra_toggle(s, o)
    \/ \E s \in MainSessions, fail \in FinalFailures :
          Awaiting(s, "waiting_for_special_points") /\ handle_final_score(s, fail)

Spec == Init /\ [][Next]_vars

(***************************************************************************)
(* The bock counter across the handlers (specification Spec).              *)
(***************************************************************************)
\* the step is a run of handle_final_score / one that logged the round
FinalStep == out'.op = "handle_final_score"

LoggedStep == FinalStep /\ out'.msg = "logged"

\* the round data the finalizing session holds before the step
StepData == sess[out'.s].data

StepTrigger ==
    "extra_points" \in StepData.has /\ In(TriggerTag, StepData.extra_points)

\* the count as the program reads it, before and after the step
CountBefore == get_bock_count(dashboard)

CountAfter == get_bock_count(dashboard')

RowsBefore == RowCount(pastSheets, todaySheet)

RowsAfter == RowCount(pastSheets', todaySheet')

C3_NoPartialCommit ==
    [][(FinalStep /\ RowsAfter = RowsBefore) => CountAfter = CountBefore]_vars

\* C4: a logged round is a bonus round exactly when the count read at
\* finalization is positive, the scorer gets that flag, and the round (the
\* trigger tag aside) takes exactly 1 from a positive count and nothing from 0.
C4_BonusCapturedOnce ==
    [][LoggedStep =>
          /\ out'.bock = (CountBefore > 0)
          /\ todaySheet'.rows[Len(todaySheet'.rows)] =
                LedgerRow(StepData, StepData.players,
                          calculate_points(StepData, get_rules(rulesSheet),
                                           StepData.players, CountBefore > 0).scores)
          /\ ~StepTrigger =>
                CountAfter = IF CountBefore > 0 THEN CountBefore - 1 ELSE CountBefore
      ]_vars

\* C5: a logged round adds exactly 4 to the bock count if and only if the
\* trigger tag is among its special events; with the decrement of a bonus
\* round the count changes by +3.
C5_TriggerAddsFour ==
    [][LoggedStep =>
          CountAfter - CountBefore =
              (IF StepTrigger THEN 4 ELSE 0) - (IF CountBefore > 0 THEN 1 ELSE 0)
      ]_vars

\* C6: the bock count changes only in a finalization; setup, /score, the
\* callbacks of the round, undo and the dashboard refresh leave it unchanged
\* (stated here without the two admin resets).
C6_OnlyRoundsChangeCount ==
    [][out'.op \notin {"handle_final_score", "handle_reset_bock",
                       "handle_confirm_full_reset"}
          => CountAfter = CountBefore]_vars

\* C7: the count carries over: the count a logged round leaves (the number of
\* bonus rounds its summary announces) is the count the store holds for the
\* next finalization to read.
C7_CarriesOver ==
    (out.op = "handle_final_score" /\ out.msg = "logged")
        => get_bock_count(dashboard) = out.left

(***************************************************************************)
(* ScoreSpec: the scorer alone.  Init draws the arguments of one call of   *)
(* calculate_points, Score applies it.                                     *)
(***************************************************************************)
MaxTeam == 3        \* length of the re_players lists handed to the scorer
MaxTags == 3        \* length of the announcement and extra_points lists

RuleStores ==
    { [exists |-> FALSE, rows |-> <<>>],
      [exists |-> TRUE, rows |-> <<>>],
      [exists |-> TRUE, rows |-> <<[Key |-> "BasePoint", Value |-> 2]>>],
      [exists |-> TRUE, rows |-> <<[Key |-> "SoloMultiplier", Value |-> 2]>>] }

Rosters == { <<"A", "B", "C", "D">>, <<"A", "B", "C", "D", "E">> }

TeamLists ==
    { l \in UNION {[1..n -> {"A", "B", "C"}] : n \in 0..MaxTeam} : IsUnique(l) }

\* the options of the announcement and special-point keyboards
AnnOptions == <<"Re", "Kontra", "Keine 90", "Keine 60", "Keine 30">>

ExtraOptions ==
    <<"Fuchs", "Karlchen", "Doppelkopf", "Keine 90", "Keine 60", "Keine 30", "Schwarz",
      TriggerTag>>

AnnLists == { SubSeq(AnnOptions, 1, n) : n \in 0..MaxTags }

ExtraLists ==
    { SubSeq(ExtraOptions, 1, n) : n \in 0..MaxTags }
        \cup { <<TriggerTag>>, <<"Fuchs", TriggerTag>> }

\* a game_data dict: the keys in h with their values
GameData(h, t, re, so, w, an, ex) ==
    [has |-> h \cup {"announcements", "extra_points"},
     players |-> <<>>,
     type |-> IF "type" \in h THEN t ELSE "",
     re_players |-> IF "re_players" \in h THEN re ELSE <<>>,
     soloist |-> IF "soloist" \in h THEN so ELSE "",
     winner_team |-> IF "winner_team" \in h THEN w ELSE "",
     announcements |-> an,
     extra_points |-> ex]

\* soloist:<name> of a keyboard built from the roster, or from an earlier roster
SoloistNames == {"A", "X"}

ScoreData ==
    { GameData(h, t, re, so, w, an, ex) :
        h \in SUBSET {"type", "re_players", "soloist", "winner_team"},
        so \in SoloistNames,
        t \in {"Normal", "Solo", "Hochzeit"},
        re \in TeamLists,
        w \in {"Re", "Kontra", "Soloist", "Others"},
        an \in AnnLists,
        ex \in ExtraLists }

ScoreInit ==
    /\ dashboard = NoDashboard
    /\ rulesSheet \in RuleStores
    /\ todaySheet = NoSheet
    /\ pastSheets = <<>>
    /\ sess = [s \in Sessions |-> Cleared]
    /\ out = NoReply
    /\ tasks = NoTasks
    /\ \E g \in ScoreData, r \in {rulesSheet}, ps \in Rosters, b \in BOOLEAN :
          sc = [phase |-> "call", g |-> g, rules |-> get_rules(r), players |-> ps,
                is_bock |-> b, ok |-> FALSE, scores |-> NoScores]

Score ==
    /\ sc.phase = "call"
    /\ LET res == calculate_points(sc.g, sc.rules, sc.players, sc.is_bock)
       IN  sc' = [sc EXCEPT !.phase = "done", !.ok = res.ok, !.scores = res.scores]
    /\ UNCHANGED <<dashboard, rulesSheet, todaySheet, pastSheets, sess, out, tasks>>

ScoreNext == Score

ScoreSpec == ScoreInit /\ [][ScoreNext]_vars

ScoreSum == SumOver(sc.scores, DOMAIN sc.scores)

\* a complete Team round with a declared team of two roster players
CompleteTeamRound ==
    /\ {"type", "re_players", "winner_team"} \subseteq sc.g.has
    /\ sc.g.type = "Normal"
    /\ sc.g.winner_team \in {"Re", "Kontra"}
    /\ Len(sc.g.re_players) = 2
    /\ Range(sc.g.re_players) \subseteq Range(sc.players)

\* C1: for every complete Team round, roster of 4 or 5, two-member team,
\* either winner, any announcements, events and bonus flag, the deltas the
\* scorer returns sum to zero over the roster.
C1_TeamZeroSum ==
    (sc.phase = "done" /\ CompleteTeamRound) => (sc.ok /\ ScoreSum = 0)

\* the round descriptions the scorer has to reject
InvalidRound ==
    \/ "type" \notin sc.g.has
    \/ sc.g.type \notin {"Normal", "Solo"}
    \/ "winner_team" \notin sc.g.has
    \/ sc.g.type = "Solo" /\ "soloist" \notin sc.g.has
    \/ sc.g.type = "Normal" /\ ("re_players" \notin sc.g.has \/ Len(sc.g.re_players) # 2)

\* C9: the scorer fails, and returns no deltas, whenever the description lacks
\* a variant or has one other than Team/Solo, lacks a winning side, lacks the
\* soloist of a Solo round, or declares a Team-round team that does not have
\* exactly two members.
C9_RejectsInvalidRound ==
    (sc.phase = "done" /\ InvalidRound) => (~sc.ok /\ sc.scores = NoScores)

(***************************************************************************)
(* StaleSpec: the callbacks as Telegram delivers them.  The buttons of     *)
(* earlier prompts stay on the screen, and no callback handler has a state *)
(* filter, so every callback can arrive in every state of the session.     *)
(***************************************************************************)
StaleInit ==
    /\ dashboard = update_dashboard(<<"A", "B", "C", "D">>, DefaultRules, <<>>, NoSheet)
    /\ rulesSheet = [exists |-> FALSE, rows |-> <<>>]
    /\ todaySheet = NoSheet
    /\ pastSheets = <<>>
    /\ sess = [s \in Sessions |-> Cleared]
    /\ out = NoReply
    /\ sc = NoScoreCall
    /\ tasks = NoTasks

StaleNext ==
    \/ \E s \in MainSessions : cmd_score(s, FALSE)
    \/ \E s \in MainSessions, ty \in {"Normal", "Solo"} : process_game_type(s, ty)
    \/ \E s \in MainSessions, p \in ReInputs : handle_re_selection(s, p)
    \/ \E s \in MainSessions : confirm_re_team(s)
    \/ \E s \in MainSessions, p \in SoloInputs : process_soloist(s, p)
    \/ \E s \in MainSessions, w \in {"Re", "Soloist"} : handle_winner_selection(s, w)
    \/ \E s \in MainSessions : handle_announcement_done(s)
    \/ \E s \in MainSessions, fail \in {"none", "roster"} : handle_final_score(s, fail)

StaleSpec == StaleInit /\ [][StaleNext]_vars

\* C8: a finalization entered with a Team round whose team is missing or does
\* not have exactly 2 members aborts: an error is surfaced, no ledger entry is
\* appended, the bock count is unchanged and the session is discarded.
C8_InvalidTeamAborts ==
    [][(FinalStep /\ "type" \in StepData.has /\ TeamInvalid(StepData)) =>
          /\ out'.msg \in {"team_error", "log_error"}
          /\ RowsAfter = RowsBefore
          /\ CountAfter = CountBefore
          /\ sess'[out'.s] = Cleared
      ]_vars

\* the state in which the prompt of a callback is on display
PromptState(op) ==
    CASE op = "process_game_type" -> "waiting_for_game_type"
      [] op = "handle_re_selection" -> "waiting_for_re_players"
      [] op = "confirm_re_team" -> "waiting_for_re_players"
      [] op = "process_soloist" -> "waiting_for_soloist"
      [] op = "handle_winner_selection" -> "waiting_for_winner"
      [] op = "handle_announcement_toggle" -> "waiting_for_announcements"
      [] op = "handle_announcement_done" -> "waiting_for_announcements"
      [] op = "handle_extra_toggle" -> "waiting_for_special_points"
      [] op = "handle_final_score" -> "waiting_for_special_points"
      [] OTHER -> "None"

\* C10: the session machine is strictly linear: a callback moves the session
\* to another state, or logs a round, only when it arrives in the state whose
\* prompt it belongs to.
C10_StrictlyLinear ==
    [][(/\ out'.op \notin {"cmd_start", "process_players", "cmd_score"}
        /\ \/ sess'[out'.s].state # sess[out'.s].state
           \/ RowsAfter # RowsBefore)
          => sess[out'.s].state = PromptState(out'.op)]_vars

\* C11: a store failure during finalization is reported and the session is
\* cleared: every run of the finalization handler ends with a reply to the
\* user (the summary or an error message) and with the session discarded.
C11_FailureReportedAndCleared ==
    [][FinalStep =>
          /\ out'.msg \in {"logged", "logged_then_error", "log_error", "team_error"}
          /\ sess'[out'.s] = Cleared
      ]_vars

\* the round points the rules prescribe for the call in sc
ExpectedRoundPoints ==
    LET base == RuleGet(sc.rules, "BasePoint", 1)
        specials == Range(sc.g.extra_points) \ {TriggerTag}
    IN  (base + Cardinality(specials)) * (2 ^ Len(sc.g.announcements))
            * (IF sc.is_bock THEN 2 ELSE 1)

Abs(n) == IF n < 0 THEN -n ELSE n

\* the same call with the trigger tag added to the special events
WithTrigger ==
    calculate_points([sc.g EXCEPT !.extra_points = Append(@, TriggerTag)],
                     sc.rules, sc.players, sc.is_bock)

\* C12: roundPoints = (BasePoint + number of special events other than the
\* trigger tag) * 2^(number of announcements), doubled in a bonus round: every
\* delta of a Team round and every non-soloist delta of a Solo round has that
\* magnitude, and adding the trigger tag changes no delta.
C12_RoundPoints ==
    (sc.phase = "done" /\ sc.ok /\ sc.g.type \in {"Normal", "Solo"}) =>
        /\ \A p \in DOMAIN sc.scores :
              (sc.g.type = "Solo" /\ p = sc.g.soloist) \/
                  Abs(sc.scores[p]) = ExpectedRoundPoints
        /\ ~In(TriggerTag, sc.g.extra_points) => WithTrigger.scores = sc.scores

\* a bonus Team round with 3 announcements, one special event and the trigger
\* tag: (2 + 1) * 8 * 2 = 48 with BasePoint 2
C12_Witness ==
    /\ sc.phase = "done"
    /\ sc.ok
    /\ sc.g.type = "Normal"
    /\ Len(sc.g.announcements) = 3
    /\ sc.g.extra_points = <<"Fuchs", TriggerTag>>
    /\ sc.is_bock
    /\ \E p \in DOMAIN sc.scores : sc.scores[p] = 48

\* C13: in a Team round every player of the winning side receives
\* +roundPoints and every player of the losing side -roundPoints; the sides
\* are the declared two-member team and the roster complement.
C13_TeamDeltas ==
    (sc.phase = "done" /\ CompleteTeamRound) =>
        /\ sc.ok
        /\ \A p \in Range(sc.players) :
              sc.scores[p] =
                  IF (p \in Range(sc.g.re_players)) = (sc.g.winner_team = "Re")
                  THEN ExpectedRoundPoints ELSE -ExpectedRoundPoints

\* roster [A,B,C,D], team [A,B] wins, 1 announcement, 2 specials, BasePoint 1
C13_Witness ==
    /\ sc.phase = "done"
    /\ sc.players = <<"A", "B", "C", "D">>
    /\ sc.g.re_players = <<"A", "B">>
    /\ sc.g.announcements = <<"Re">>
    /\ sc.g.extra_points = <<"Fuchs", "Karlchen">>
    /\ sc.scores = [p \in {"A", "B", "C", "D"} |-> IF p \in {"A", "B"} THEN 6 ELSE -6]

\* a complete Solo round with a soloist of the roster
CompleteSoloRound ==
    /\ {"type", "soloist", "winner_team"} \subseteq sc.g.has
    /\ sc.g.type = "Solo"
    /\ sc.g.winner_team \in {"Soloist", "Others"}
    /\ sc.g.soloist \in Range(sc.players)

SoloSign == IF sc.g.winner_team = "Soloist" THEN 1 ELSE -1

ExpectedSoloMultiplier == RuleGet(sc.rules, "SoloMultiplier", 3)

\* C14: in a Solo round the soloist receives +roundPoints*SoloMultiplier and
\* every other roster player -roundPoints when the soloist wins, and the
\* opposite signs when the soloist loses.
C14_SoloDeltas ==
    (sc.phase = "done" /\ CompleteSoloRound) =>
        /\ sc.ok
        /\ \A p \in Range(sc.players) :
              sc.scores[p] =
                  IF p = sc.g.soloist
                  THEN SoloSign * ExpectedRoundPoints * ExpectedSoloMultiplier
                  ELSE -SoloSign * ExpectedRoundPoints

\* roster [A,B,C,D], soloist A loses with 1 special, BasePoint 1, multiplier 3
C14_Witness ==
    /\ sc.phase = "done"
    /\ sc.players = <<"A", "B", "C", "D">>
    /\ sc.g.type = "Solo"
    /\ sc.g.extra_points = <<"Fuchs">>
    /\ sc.scores = [p \in {"A", "B", "C", "D"} |-> IF p = "A" THEN -6 ELSE 2]

\* C15: for every complete Solo round with roster size N the deltas sum to
\* sign * roundPoints * (SoloMultiplier - (N-1)).
C15_SoloSum ==
    (sc.phase = "done" /\ CompleteSoloRound) =>
        ScoreSum = SoloSign * ExpectedRoundPoints
                       * (ExpectedSoloMultiplier - (Len(sc.players) - 1))

\* a won Solo round at a table of 5: the sum is -roundPoints
C15_Witness ==
    /\ sc.phase = "done"
    /\ CompleteSoloRound
    /\ Len(sc.players) = 5
    /\ sc.g.winner_team = "Soloist"
    /\ ScoreSum = -ExpectedRoundPoints
    /\ ScoreSum < 0

\* a round description with every key its variant needs and a valid winner
CompleteRound ==
    \/ /\ {"type", "re_players", "winner_team"} \subseteq sc.g.has
       /\ sc.g.type = "Normal"
       /\ sc.g.winner_team \in {"Re", "Kontra"}
       /\ Len(sc.g.re_players) = 2
    \/ /\ {"type", "soloist", "winner_team"} \subseteq sc.g.has
       /\ sc.g.type = "Solo"
       /\ sc.g.winner_team \in {"Soloist", "Others"}

\* C16: for every complete round description the keys of the scorer's output
\* are exactly the roster players.
C16_KeysAreRoster ==
    (sc.phase = "done" /\ CompleteRound) =>
        (sc.ok /\ DOMAIN sc.scores = Range(sc.players))

\* C21: on the Team path the session leaves the team selection for the winner
\* prompt only when exactly 2 players are selected: the toggle reply carries
\* the confirm button exactly when the selection has 2 members, and a confirm
\* callback arriving while it has not does not advance the session.
C21_ConfirmNeedsTwo ==
    [][/\ (out'.op = "handle_re_selection" /\ out'.msg # "unhandled") =>
             (out'.msg = "toggles_and_confirm"
                 <=> Len(sess'[out'.s].data.re_players) = 2)
       /\ (out'.op = "confirm_re_team" /\ out'.msg = "ask_winner") =>
             Len(sess[out'.s].data.re_players) = 2
      ]_vars

\* C24: every finalization attempt, successful or not, ends with the session
\* discarded (no state, no collected data), and a finish input received by a
\* discarded session appends no ledger entry and leaves the bock count as it is.
C24_FinalizationDiscards ==
    [][FinalStep =>
          /\ sess'[out'.s] = Cleared
          /\ sess[out'.s] = Cleared =>
                (RowsAfter = RowsBefore /\ CountAfter = CountBefore)
      ]_vars

(***************************************************************************)
(* CollectSpec: one user collecting Solo rounds, with the tag keyboards.   *)
(* As in StaleSpec every callback can arrive in every state.               *)
(***************************************************************************)
ToggleAnnInputs == Range(SubSeq(AnnOptions, 1, MaxToggleTags))

ToggleExtraInputs == Range(SubSeq(ExtraOptions, 1, MaxToggleTags))

CollectNext ==
    \/ \E s \in MainSessions : cmd_score(s, FALSE)
    \/ \E s \in MainSessions : process_game_type(s, "Solo")
    \/ \E s \in MainSessions, p \in SoloInputs : process_soloist(s, p)
    \/ \E s \in MainSessions : handle_winner_selection(s, "Soloist")
    \/ \E s \in MainSessions, o \in ToggleAnnInputs : handle_announcement_toggle(s, o)
    \/ \E s \in MainSessions : handle_announcement_done(s)
    \/ \E s \in MainSessions, o \in ToggleExtraInputs : handle_extra_toggle(s, o)
    \/ \E s \in MainSessions : handle_final_score(s, "none")

CollectSpec == StaleInit /\ [][CollectNext]_vars

\* the tags a session holds; data.get(key, []) of a missing key is the empty list
Announcements(d) == IF "announcements" \in d.has THEN d.announcements ELSE <<>>

ExtraPoints(d) == IF "extra_points" \in d.has THEN d.extra_points ELSE <<>>

\* C22: immediately after a winner-side input is processed the announcement
\* set and the special-event set of the round are both empty, whatever tags
\* the session had accumulated before.
C22_WinnerClearsTags ==
    [][out'.op = "handle_winner_selection" =>
          /\ Announcements(sess'[out'.s].data) = <<>>
          /\ ExtraPoints(sess'[out'.s].data) = <<>>
      ]_vars

\* new is old with the membership of exactly one tag flipped
FlipsOne(old, new, tags) ==
    \E x \in tags :
        Range(new) = IF x \in Range(old) THEN Range(old) \ {x} ELSE Range(old) \cup {x}

\* toggling twice restores the set, toggles of different tags commute
ToggleLaws(tags, opts) ==
    \A x \in opts, y \in opts :
        /\ Range(ToggleTag(ToggleTag(tags, x), x)) = Range(tags)
        /\ Range(ToggleTag(ToggleTag(tags, x), y)) =
              Range(ToggleTag(ToggleTag(tags, y), x))
        /\ Range(ToggleTag(tags, x)) =
              IF x \in Range(tags) THEN Range(tags) \ {x} ELSE Range(tags) \cup {x}

\* C23: announcement and special-event selection is a pure set toggle: a
\* toggle step flips the membership of exactly one tag of its keyboard and
\* changes nothing else, no tag ever occurs twice, on every list a session
\* holds toggling twice restores the set and toggles of different tags
\* commute, and a list changes only by a toggle of its keyboard or by being
\* emptied (winner input, proceed, discarded session), so that the set at
\* proceed or finish holds the tags toggled an odd number of times since then.
C23_PureSetToggle ==
    [][LET d == sess[out'.s].data
           e == sess'[out'.s].data
       IN  out'.s \in Sessions =>
           /\ IsUnique(Announcements(e)) /\ IsUnique(ExtraPoints(e))
           /\ ToggleLaws(Announcements(e), ToggleAnnInputs)
           /\ ToggleLaws(ExtraPoints(e), ToggleExtraInputs)
           /\ out'.op = "handle_announcement_toggle" =>
                 /\ FlipsOne(Announcements(d), Announcements(e), ToggleAnnInputs)
                 /\ ExtraPoints(e) = ExtraPoints(d)
           /\ out'.op = "handle_extra_toggle" =>
                 /\ FlipsOne(ExtraPoints(d), ExtraPoints(e), ToggleExtraInputs)
                 /\ Announcements(e) = Announcements(d)
           /\ out'.op # "handle_announcement_toggle" =>
                 Announcements(e) \in {Announcements(d), <<>>}
           /\ out'.op # "handle_extra_toggle" =>
                 ExtraPoints(e) \in {ExtraPoints(d), <<>>}
      ]_vars

\* at the special-point prompt a tag was toggled on and off again while
\* another one stays selected, with both announcements selected
C23_Witness ==
    /\ out.op = "handle_extra_toggle"
    /\ sess[out.s].state = "waiting_for_special_points"
    /\ sess[out.s].data.extra_points = <<ExtraOptions[2]>>
    /\ Len(sess[out.s].data.announcements) = 2

\* the rule set with the documented defaults filled in for the missing keys
WithDefaults(rules) ==
    rules \o (IF HasRule(rules, "BasePoint") THEN <<>>
              ELSE <<[Key |-> "BasePoint", Value |-> 1]>>)
          \o (IF HasRule(rules, "SoloMultiplier") THEN <<>>
              ELSE <<[Key |-> "SoloMultiplier", Value |-> 3]>>)

\* C20: a missing rule never fails a round: scoring with a rule set that lacks
\* BasePoint and/or SoloMultiplier gives the same outcome and deltas as scoring
\* with BasePoint=1 and SoloMultiplier=3 in their place, and an absent rules
\* store yields BasePoint=1, SoloMultiplier=3, CentFaktor=0.05 (5 hundredths).
C20_MissingRuleDefaults ==
    /\ sc.rules = get_rules(rulesSheet)
    /\ sc.phase = "done" =>
          LET res == calculate_points(sc.g, WithDefaults(sc.rules), sc.players,
                                      sc.is_bock)
          IN  /\ HasRule(WithDefaults(sc.rules), "BasePoint")
              /\ HasRule(WithDefaults(sc.rules), "SoloMultiplier")
              /\ sc.ok = res.ok
              /\ sc.scores = res.scores
    /\ ~rulesSheet.exists =>
          /\ RuleGet(sc.rules, "BasePoint", 0) = 1
          /\ RuleGet(sc.rules, "SoloMultiplier", 0) = 3
          /\ RuleGet(sc.rules, "CentFaktor", 0) = 5

\* a won Solo round scored with an empty Rules sheet: BasePoint 1 and
\* SoloMultiplier 3 apply
C20_Witness ==
    /\ sc.phase = "done"
    /\ rulesSheet.exists
    /\ sc.rules = <<>>
    /\ sc.players = <<"A", "B", "C", "D">>
    /\ sc.g.type = "Solo"
    /\ sc.g.announcements = <<>>
    /\ sc.g.extra_points = <<>>
    /\ ~sc.is_bock
    /\ sc.scores = [p \in {"A", "B", "C", "D"} |-> IF p = "A" THEN 3 ELSE -1]

(***************************************************************************)
(* LedgerSpec: the daily sheets under undo, the balance, the dashboard     *)
(* refresh, the full reset, a finalization and the change of day.  Init    *)
(* draws a ledger of rounds logged after the setup of players A, B, C, D.  *)
(***************************************************************************)
\* cmd_kasse lines 656-661: no try around get_all_records, the first worksheet
\* that raises fails the command
RECURSIVE KasseTotals(_, _, _, _)
KasseTotals(tot, ws, players, k) ==
    IF k > Len(ws) THEN [tot |-> tot, ok |-> TRUE]
    ELSE IF ~RecordsOK(ws[k]) THEN [tot |-> tot, ok |-> FALSE]
    ELSE LET a == AddRows(tot, ws[k], players, 1) IN
         IF a.ok THEN KasseTotals(a.tot, ws, players, k + 1) ELSE a

\* cmd_kasse with the dashboard rewritten from the sums it computed
cmd_kasse_WritesDashboard(s, fail) ==
    /\ LET players == get_players_from_dashboard(dashboard)
           res == KasseTotals(ZeroTotals(players), Worksheets(pastSheets, todaySheet),
                              players, 1)
       IN  /\ out' = [op |-> "cmd_kasse", s |-> s, msg |-> "balance",
                      bock |-> FALSE, left |-> 0, totals |-> res.tot,
                      cent |-> RuleGet(get_rules(rulesSheet), "CentFaktor", 5)]
           /\ dashboard' = [dashboard EXCEPT !.colA = <<"Spieler">>]
    /\ UNCHANGED <<rulesSheet, todaySheet, pastSheets, sess, sc, tasks>>

\* cmd_kasse, lines 648-668; the reply lists the totals and the euro amounts
cmd_kasse(s, fail) ==
    /\ LET rules == get_rules(rulesSheet)
           players == get_players_from_dashboard(dashboard)
           res == KasseTotals(ZeroTotals(players), Worksheets(pastSheets, todaySheet),
                              players, 1)
       IN  out' = IF fail \/ ~res.ok
                  THEN Reply("cmd_kasse", s, "store_error")
                  ELSE [op |-> "cmd_kasse", s |-> s, msg |-> "balance",
                        bock |-> FALSE, left |-> 0, totals |-> res.tot,
                        cent |-> RuleGet(rules, "CentFaktor", 5)]
    /\ UNCHANGED <<dashboard, rulesSheet, todaySheet, pastSheets, sess, sc, tasks>>

\* midnight: datetime.now().strftime("%d.%m.%y") names another worksheet
NextDay ==
    /\ todaySheet.exists
    /\ Len(pastSheets) < MaxPastDays
    /\ pastSheets' = Append(pastSheets, todaySheet)
    /\ todaySheet' = NoSheet
    /\ out' = NoReply
    /\ UNCHANGED <<dashboard, rulesSheet, sess, sc, tasks>>

\* the dashboard process_players writes, and the roster /score reads from it
SetupDashboard == update_dashboard(<<"A", "B", "C", "D">>, DefaultRules, <<>>, NoSheet)

SetupRoster == get_players_from_dashboard(SetupDashboard)

\* the session data of a collected round, as the callbacks leave it
CollectedRounds ==
    { [GameData({"type", "soloist", "winner_team"}, "Solo", <<>>, "A", w, <<>>, <<>>)
          EXCEPT !.has = @ \cup {"players"}, !.players = SetupRoster] :
        w \in {"Soloist", "Others"} }
    \cup
    { [GameData({"type", "re_players", "winner_team"}, "Normal", <<"A", "B">>, "", "Re",
                <<>>, <<>>)
          EXCEPT !.has = @ \cup {"players"}, !.players = SetupRoster] }

\* the rows handle_final_score appends for these rounds
LoggedRows ==
    { LedgerRow(g, SetupRoster,
                calculate_points(g, DefaultRules, SetupRoster, FALSE).scores) :
        g \in CollectedRounds }

DailySheets(n) ==
    { [exists |-> TRUE, header |-> SetupRoster, rows |-> r] :
        r \in UNION {[1..k -> LoggedRows] : k \in 0..n} }

LedgerInit ==
    /\ dashboard = SetupDashboard
    /\ rulesSheet = [exists |-> FALSE, rows |-> <<>>]
    /\ todaySheet \in {NoSheet} \cup DailySheets(MaxLedgerRows)
    /\ pastSheets \in {<<>>} \cup {<<sh>> : sh \in DailySheets(1) \ DailySheets(0)}
    /\ \E d \in {Cleared} \cup
                {[state |-> "waiting_for_special_points", data |-> g] :
                    g \in CollectedRounds} :
          sess = [s \in Sessions |-> IF s \in MainSessions THEN d ELSE Cleared]
    /\ out = NoReply
    /\ sc = NoScoreCall
    /\ tasks = NoTasks

LedgerNext ==
    \/ \E s \in MainSessions, fail \in BOOLEAN : cmd_undo(s, fail)
    \/ \E s \in MainSessions, fail \in BOOLEAN : cmd_kasse(s, fail)
    \/ \E s \in MainSessions : handle_refresh_dashboard(s, FALSE)
    \/ \E s \in MainSessions : handle_confirm_full_reset(s, FALSE)
    \/ \E s \in MainSessions, fail \in {"none", "append", "dashboard"} :
          Awaiting(s, "waiting_for_special_points") /\ handle_final_score(s, fail)
    \/ NextDay

LedgerSpec == LedgerInit /\ [][LedgerNext]_vars

\* the worksheets of the ledger, the sheet of the current day last
Ledger == Worksheets(pastSheets, todaySheet)

LedgerAfter == Worksheets(pastSheets', todaySheet')

Front(seq) == SubSeq(seq, 1, Len(seq) - 1)

TodayHasRounds == todaySheet.exists /\ todaySheet.rows # <<>>

\* the step deletes the last row of the current day's sheet and nothing else
UndoneLast ==
    /\ TodayHasRounds
    /\ todaySheet' = [todaySheet EXCEPT !.rows = Front(@)]
    /\ pastSheets' = pastSheets

\* C17: undo removes exactly the most recently appended entry of the current
\* day's sheet and leaves the earlier entries and the other sheets unchanged;
\* with no entry (or no sheet) for the day it changes nothing and says so.
C17_UndoRemovesLast ==
    [][out'.op = "cmd_undo" =>
          IF out'.msg = "deleted"
          THEN UndoneLast
          ELSE /\ todaySheet' = todaySheet
               /\ pastSheets' = pastSheets
               /\ TodayHasRounds => out'.msg = "store_error"
               /\ ~TodayHasRounds =>
                     out'.msg \in {"nothing_to_undo", "no_rounds_today", "store_error"}
      ]_vars

\* the second of two rounds of the day was undone, the sheet of the day before
\* is still there
C17_Witness ==
    /\ out.op = "cmd_undo"
    /\ out.msg = "deleted"
    /\ Len(todaySheet.rows) = 1
    /\ Len(pastSheets) = 1
    /\ Len(pastSheets[1].rows) = 1

\* the step appends one row to the current day's sheet and changes no other row
AppendedOne ==
    /\ todaySheet'.exists
    /\ Len(todaySheet'.rows) = RowCount(<<>>, todaySheet) + 1
    /\ Front(todaySheet'.rows) = todaySheet.rows
    /\ pastSheets' = pastSheets

\* the step leaves every entry as it is (a sheet may be created, the day may change)
EntriesKept ==
    \/ LedgerAfter = Ledger
    \/ /\ pastSheets' = pastSheets
       /\ todaySheet'.exists
       /\ todaySheet'.rows = todaySheet.rows

C19_TotalsIdempotent ==
    [][/\ out'.op = "cmd_kasse" =>
             /\ <<dashboard, rulesSheet, todaySheet, pastSheets>>' =
                   <<dashboard, rulesSheet, todaySheet, pastSheets>>
             /\ out.op = "cmd_kasse" /\ out.msg = out'.msg => out' = out
       /\ out'.op = "handle_refresh_dashboard" =>
             <<todaySheet, pastSheets>>' = <<todaySheet, pastSheets>>
      ]_vars

\* a balance over the sheets of two days with a non-zero total
C19_Witness ==
    /\ out.op = "cmd_kasse"
    /\ out.msg = "balance"
    /\ Len(Ledger) = 2
    /\ out.totals["A"] # 0


(***************************************************************************)
(* ConcSpec: two users with a collected round each, and finish inputs that *)
(* the dispatcher handles as concurrent tasks (start_polling handles each  *)
(* update in a task of its own).                                           *)
(***************************************************************************)
ReadyRounds ==
    CollectedRounds \cup {[g EXCEPT !.extra_points = <<TriggerTag>>] : g \in CollectedRounds}

ConcInit ==
    /\ dashboard \in {set_bock_count(SetupDashboard, n) : n \in 0..MaxInitBock}
    /\ rulesSheet = [exists |-> FALSE, rows |-> <<>>]
    /\ todaySheet = NoSheet
    /\ pastSheets = <<>>
    /\ sess \in [Sessions -> {[state |-> "waiting_for_special_points", data |-> g] :
                                g \in ReadyRounds}]
    /\ out = NoReply
    /\ sc = NoScoreCall
    /\ tasks = NoTasks

ConcNext ==
    \E t \in Tasks :
        \/ \E s \in Sessions : final_begin(t, s)
        \/ final_commit(t)
        \/ final_dashboard(t)
        \/ final_clear(t)

ConcSpec == ConcInit /\ [][ConcNext]_vars

\* both tasks have run to their end and logged a round
BothLogged(a, b) ==
    /\ a # b
    /\ tasks[a].pc = "done" /\ tasks[a].logged
    /\ tasks[b].pc = "done" /\ tasks[b].logged

\* C25: the read-modify-write of the bock count is atomic per finalization:
\* when two different sessions finalize concurrently no update is lost (one
\* round read the count the other one computed, and the stored count is the
\* one that round computed), and two rounds never both consume a count of 1.
C25_NoLostUpdate ==
    \A a \in Tasks, b \in Tasks :
        (BothLogged(a, b) /\ tasks[a].s # tasks[b].s) =>
            /\ \/ tasks[b].read = tasks[a].new /\ get_bock_count(dashboard) = tasks[b].new
               \/ tasks[a].read = tasks[b].new /\ get_bock_count(dashboard) = tasks[a].new
            /\ ~(tasks[a].read = 1 /\ tasks[b].read = 1)

\* C26: a session processes one input at a time: two finish inputs for the
\* same session, delivered before either has cleared the session, finalize the
\* collected round at most once (one ledger entry, one decrement).
C26_FinalizedOnce ==
    \A a \in Tasks, b \in Tasks :
        (a # b /\ tasks[a].s = tasks[b].s /\ tasks[a].logged) => ~tasks[b].logged


(***************************************************************************)
(* DaySpec: one user logging Solo rounds one after the other on one day,   *)
(* each input sent after the reply to the one before.                      *)
(***************************************************************************)
NoTaskRunning == \A t \in Tasks : tasks[t].pc \in {"idle", "done"}

DayNext ==
    \/ \E s \in MainSessions :
          NoTaskRunning /\ sess[s].state = "None" /\ cmd_score(s, FALSE)
    \/ \E s \in MainSessions, ty \in {"Solo", "Normal"} :
          Awaiting(s, "waiting_for_game_type") /\ process_game_type(s, ty)
    \/ \E s \in MainSessions, p \in ReInputs :
          PlayerShown(s, "waiting_for_re_players", p) /\ handle_re_selection(s, p)
    \/ \E s \in MainSessions : ConfirmShown(s) /\ confirm_re_team(s)
    \/ \E s \in MainSessions, p \in SoloInputs :
          PlayerShown(s, "waiting_for_soloist", p) /\ process_soloist(s, p)
    \/ \E s \in MainSessions, w \in WinnerInputs :
          WinnerShown(s, w) /\ handle_winner_selection(s, w)
    \/ \E s \in MainSessions :
          Awaiting(s, "waiting_for_announcements") /\ handle_announcement_done(s)
    \/ \E s \in MainSessions, t \in Tasks :
          /\ NoTaskRunning
          /\ Awaiting(s, "waiting_for_special_points")
          /\ final_begin(t, s)
    \/ \E t \in Tasks : final_commit(t) \/ final_dashboard(t) \/ final_clear(t)

DaySpec == StaleInit /\ [][DayNext]_vars

\* the scorer's output for the round the step finalizes
StepScores ==
    calculate_points(StepData, get_rules(rulesSheet), StepData.players,
                     CountBefore > 0).scores

\* C27: each successful finalization appends exactly one entry to the current
\* day's sheet, whose variant and winning side are those collected, whose
\* per-player deltas are the scorer's output in the order of the header, and
\* whose total of positive points is the sum of the strictly positive deltas.
C27_AppendsTheRound ==
    [][LoggedStep =>
          /\ todaySheet'.exists
          /\ pastSheets' = pastSheets
          /\ Len(todaySheet'.rows) = RowCount(<<>>, todaySheet) + 1
          /\ Front(todaySheet'.rows) = todaySheet.rows
          /\ LET row == todaySheet'.rows[Len(todaySheet'.rows)]
                 hdr == todaySheet'.header
             IN  /\ row.type = StepData.type
                 /\ row.winner = StepData.winner_team
                 /\ row.cols = [i \in 1..Len(hdr) |-> StepScores[hdr[i]]]
                 /\ row.pts = PositiveSum(StepScores)
      ]_vars


ValidWinner(type, winner) ==
    CASE type = "Normal" -> winner \in {"Re", "Kontra"}
      [] type = "Solo" -> winner \in {"Soloist", "Others"}
      [] OTHER -> FALSE

\* C28: every finalized round recorded in the ledger has a winning side valid
\* for its variant: Re or Kontra for a Team round, Soloist or Others for a
\* Solo round; a round with a winner of the other variant is never appended.
C28_WinnerFitsVariant ==
    \A k \in 1..Len(Ledger) : \A i \in 1..Len(Ledger[k].rows) :
        ValidWinner(Ledger[k].rows[i].type, Ledger[k].rows[i].winner)


\* C29: the roster loaded from the store when a round is started or finalized
\* is exactly the list of names registered at setup (here A, B, C, D), in the
\* same order and with the same cardinality, also after the dashboard has been
\* rewritten by earlier finalizations.
C29_RosterIsSetupList ==
    \A s \in Sessions :
        "players" \in sess[s].data.has => sess[s].data.players = <<"A", "B", "C", "D">>

(***************************************************************************)
(* SetupSpec: /start, the message with the player names, /score and the     *)
(* dashboard refresh, for two users.                                       *)
(***************************************************************************)
\* the comma-separated pieces of the message, stripped
SetupFields ==
    { <<"A", "B", "C", "D">>, <<"A", "B", "C", "D", "E">>, <<"A", "", "B", "C", "D">>,
      <<"A", "B", "C">>, <<"A", "B", "C", "D", "E", "F">>, <<"A", "A", "B", "C">> }

SetupNext ==
    \/ \E s \in Sessions, fail \in BOOLEAN : cmd_start(s, fail)
    \/ \E s \in Sessions, f \in SetupFields, fail \in BOOLEAN : process_players(s, f, fail)
    \/ \E s \in Sessions : cmd_score(s, FALSE)
    \/ \E s \in Sessions : handle_refresh_dashboard(s, FALSE)

SetupSpec == Init /\ [][SetupNext]_vars

\* the player rows of the dashboard: column A from row 2 to the first empty cell
RECURSIVE UpToBlank(_, _)
UpToBlank(col, i) ==
    IF i > Len(col) \/ col[i] = "" THEN <<>>
    ELSE <<col[i]>> \o UpToBlank(col, i + 1)

RegisteredNames(d) == IF d.exists THEN UpToBlank(d.colA, 2) ELSE <<>>

\* C30: roster setup accepts a list of names only if it consists of 4 or 5
\* pairwise distinct names: the roster stored by an accepted setup has 4 or 5
\* distinct names, and a rejected input leaves the stored roster unchanged.
C30_SetupValidates ==
    [][out'.op = "process_players" =>
          IF out'.msg = "registered"
          THEN /\ Len(RegisteredNames(dashboard')) \in {4, 5}
               /\ IsUnique(RegisteredNames(dashboard'))
          ELSE dashboard' = dashboard
      ]_vars


(***************************************************************************)
(* StatsSpec: the ledger of LedgerSpec with the statistics command.        *)
(***************************************************************************)
\* cmd_stats, lines 723-765: the sums of lines 728-743 as in cmd_kasse, min of
\* the totals at line 746 (ValueError for an empty roster), and line 753 reads
\* the name mvp, which the function never assigns (NameError); every
\* exception is answered from the except branch of lines 764-765
cmd_stats(s, fail) ==
    /\ LET players == get_players_from_dashboard(dashboard)
           res == KasseTotals(ZeroTotals(players), Worksheets(pastSheets, todaySheet),
                              players, 1)
       IN  out' = IF fail \/ ~res.ok
                  THEN Reply("cmd_stats", s, "store_error")
                  ELSE IF players = <<>>
                  THEN Reply("cmd_stats", s, "value_error")
                  ELSE Reply("cmd_stats", s, "name_error")
    /\ UNCHANGED <<dashboard, rulesSheet, todaySheet, pastSheets, sess, sc, tasks>>

StatsNext ==
    \/ LedgerNext
    \/ \E s \in MainSessions, fail \in BOOLEAN : cmd_stats(s, fail)

StatsSpec == LedgerInit /\ [][StatsNext]_vars

\* C31: the statistics query over a non-empty ledger completes (the store
\* being readable) and reports as MVP a player whose total is maximal and as
\* low scorer a player whose total is minimal, both from the same totals.
C31_StatsReportsExtremes ==
    (out.op = "cmd_stats" /\ RowCount(pastSheets, todaySheet) > 0
        /\ out.msg # "store_error") =>
        /\ out.msg = "stats"
        /\ \A p \in DOMAIN out.totals :
              /\ out.totals[p] <= out.totals[out.mvp]
              /\ out.totals[p] >= out.totals[out.pechvogel]


(***************************************************************************)
(* PairSpec: two users collecting a Team round each at the same time, each *)
(* pressing the buttons of the prompt on display.                          *)
(***************************************************************************)
PairReInputs == {"A", "B", "C"}

PairNext ==
    \E s \in Sessions :
        \/ sess[s].state = "None" /\ cmd_score(s, FALSE)
        \/ Awaiting(s, "waiting_for_game_type") /\ process_game_type(s, "Normal")
        \/ \E p \in PairReInputs :
              PlayerShown(s, "waiting_for_re_players", p) /\ handle_re_selection(s, p)
        \/ ConfirmShown(s) /\ confirm_re_team(s)
        \/ WinnerShown(s, "Re") /\ handle_winner_selection(s, "Re")
        \/ \E o \in AnnInputs :
              Awaiting(s, "waiting_for_announcements") /\ handle_announcement_toggle(s, o)
        \/ Awaiting(s, "waiting_for_announcements") /\ handle_announcement_done(s)
        \/ \E fail \in {"none", "append"} :
              Awaiting(s, "waiting_for_special_points") /\ handle_final_score(s, fail)

PairSpec == StaleInit /\ [][PairNext]_vars

\* C32: sessions are independent: an input processed for one session never
\* changes the collected round or the state of another session.
C32_SessionsIndependent ==
    [][\A u \in Sessions : u # out'.s => sess'[u] = sess[u]]_vars

\* both users are selecting a team, with different selections
C32_Witness ==
    /\ out.op = "handle_re_selection"
    /\ sess["u1"].state = "waiting_for_re_players"
    /\ sess["u2"].state = "waiting_for_re_players"
    /\ sess["u1"].data.re_players = <<"A", "B">>
    /\ sess["u2"].data.re_players = <<"C">>

\* the selected team of a session
RePlayers(s) ==
    IF "re_players" \in sess[s].data.has THEN sess[s].data.re_players ELSE <<>>

RePlayersAfter(s) ==
    IF "re_players" \in sess'[s].data.has THEN sess'[s].data.re_players ELSE <<>>

\* C33: in every reachable session state of a Team round the selected team
\* has at most 2 members, all distinct: a toggle arriving while 2 are selected
\* leaves the selection unchanged (unselected player) or removes the player
\* (selected player), and a toggle never does anything but add or remove one.
C33_TeamAtMostTwo ==
    [][\A s \in Sessions :
          /\ Len(RePlayersAfter(s)) <= 2
          /\ IsUnique(RePlayersAfter(s))
          /\ (out'.op = "handle_re_selection" /\ out'.s = s) =>
                \/ RePlayersAfter(s) = RePlayers(s) /\ Len(RePlayers(s)) = 2
                \/ \E p \in PairReInputs :
                      \/ ~In(p, RePlayers(s)) /\ Len(RePlayers(s)) < 2
                            /\ RePlayersAfter(s) = Append(RePlayers(s), p)
                      \/ In(p, RePlayers(s)) /\ RePlayersAfter(s) = Remove(RePlayers(s), p)
      ]_vars

\* both users have selected two of the three players offered, in different
\* orders, and the last toggle shows the confirm button
C33_Witness ==
    /\ out.op = "handle_re_selection"
    /\ out.msg = "toggles_and_confirm"
    /\ sess["u1"].data.re_players = <<"C", "A">>
    /\ sess["u2"].data.re_players = <<"B", "C">>


(***************************************************************************)
(* UndoSpec: a user with a collected round finalizes it and sends /undo;   *)
(* the command is handled whenever the finalization waits at an await.     *)
(***************************************************************************)
UndoNext ==
    \/ \E s \in MainSessions, t \in Tasks :
          /\ NoTaskRunning
          /\ Awaiting(s, "waiting_for_special_points")
          /\ final_begin(t, s)
    \/ \E t \in Tasks : final_commit(t) \/ final_dashboard(t) \/ final_clear(t)
    \/ \E s \in MainSessions, fail \in BOOLEAN : cmd_undo(s, fail)

UndoSpec == ConcInit /\ [][UndoNext]_vars

\* C34: undo leaves the bock count unchanged: deleting the last ledger entry
\* neither restores the bonus round that entry consumed nor takes back the 4
\* bonus rounds of its trigger tag: an undo step changes nothing in the
\* dashboard, where the count is stored.
C34_UndoKeepsCount ==
    [][out'.op = "cmd_undo" =>
          (dashboard' = dashboard /\ CountAfter = CountBefore)]_vars

\* a round with the trigger tag was finalized from count 1 and undone: the
\* ledger is empty again, the count is still the 4 the round left (1 - 1 + 4)
C34_Witness ==
    /\ out.op = "cmd_undo"
    /\ out.msg = "deleted"
    /\ todaySheet.exists /\ todaySheet.rows = <<>>
    /\ \E t \in Tasks : tasks[t].logged /\ tasks[t].read = 1 /\ tasks[t].new = 4
    /\ get_bock_count(dashboard) = 4

====
